---- MODULE Spec2Model ----
(***************************************************************************)
(* A model of app.py: the block extraction of an HTML subtree              *)
(* (extract_blocks_recursive, _process_allowed_element, _find_script_after,*)
(* clean_orphaned_tags), the title resolver (fetch_iframe_title,           *)
(* normalize_url) and the request handler index().                         *)
(*                                                                         *)
(* Markup is a sequence of symbols: a start tag, an end tag, a run of text *)
(* or a placeholder token is one symbol each.  Text never holds "<", and   *)
(* every needle the program searches for starts with a start tag and ends  *)
(* with an end tag, so a match of symbols is a match of characters.        *)
(* A parse-tree node is [tag, attr, kids]; a text node has tag "#text" and *)
(* its characters in attr; an element's attr is its src attribute ("" when *)
(* it has none).  A node of the document is named by its path from the     *)
(* selected element: the sequence of child positions.                      *)
(***************************************************************************)
EXTENDS Integers, Sequences, FiniteSets, TLC

VARIABLES pc, tree, base_url, tag_children, i, blocks, current_group,
          child, parts, extracted_blocks, summary, error

vars == <<pc, tree, base_url, tag_children, i, blocks, current_group,
          child, parts, extracted_blocks, summary, error>>

(***************************************************************************)
(* Configuration                                                           *)
(***************************************************************************)
ALLOWED_TAGS == {"p", "blockquote", "ul", "ol", "li", "h1", "h2", "h3", "h4", "h5", "h6"}

IFRAME_TITLE_TAGS == <<"h1", "h2", "h3", "h4", "h5", "h6">>

(***************************************************************************)
(* Sequences                                                               *)
(***************************************************************************)
RECURSIVE Flatten(_)
Flatten(ss) == IF ss = <<>> THEN <<>> ELSE Head(ss) \o Flatten(Tail(ss))

\* The position of the first occurrence of needle in hay, 0 when there is none.
FirstIndex(hay, needle) ==
  LET n == Len(needle)
      hits == {k \in 1..(Len(hay) - n + 1) : SubSeq(hay, k, k + n - 1) = needle}
  IN IF n = 0 \/ hits = {} THEN 0 ELSE CHOOSE k \in hits : \A j \in hits : k <= j

\* re.subn(re.escape(needle), token, hay, count=1): <<new string, n>>.
SubnFirst(hay, needle, token) ==
  LET k == FirstIndex(hay, needle)
  IN IF k = 0 THEN <<hay, 0>>
     ELSE <<SubSeq(hay, 1, k - 1) \o <<token>> \o SubSeq(hay, k + Len(needle), Len(hay)), 1>>

\* str.replace(old, new) of every occurrence, left to right, without overlap.
RECURSIVE ReplaceAll(_, _, _)
ReplaceAll(hay, old, new) ==
  LET k == FirstIndex(hay, old)
  IN IF k = 0 THEN hay
     ELSE SubSeq(hay, 1, k - 1) \o new
          \o ReplaceAll(SubSeq(hay, k + Len(old), Len(hay)), old, new)

(***************************************************************************)
(* The parse tree                                                          *)
(***************************************************************************)
Elem(tag, src, kids) == [tag |-> tag, attr |-> src, kids |-> kids]

TextNode(t) == [tag |-> "#text", attr |-> t, kids |-> <<>>]

IsTag(n) == n.tag # "#text"

StartTag(tag, src) ==
  IF src = "" THEN "<" \o tag \o ">" ELSE "<" \o tag \o " src=\"" \o src \o "\">"

EndTag(tag) == "</" \o tag \o ">"

\* str(node)
RECURSIVE Str(_)
Str(n) ==
  IF ~IsTag(n) THEN <<n.attr>>
  ELSE <<StartTag(n.tag, n.attr)>>
       \o Flatten([k \in 1..Len(n.kids) |-> Str(n.kids[k])])
       \o <<EndTag(n.tag)>>

RECURSIVE NodeAt(_, _)
NodeAt(root, path) ==
  IF path = <<>> THEN root ELSE NodeAt(root.kids[Head(path)], Tail(path))

\* The paths of node n and of its descendants, in document order.
RECURSIVE DocOrder(_, _)
DocOrder(n, path) ==
  <<path>> \o Flatten([k \in 1..Len(n.kids) |-> DocOrder(n.kids[k], Append(path, k))])

IsPrefix(s, t) == Len(s) <= Len(t) /\ SubSeq(t, 1, Len(s)) = s

\* el.find_all(name): the descendants of the element at path with that tag.
FindAll(root, path, name) ==
  LET under(p) == p # path /\ NodeAt(root, p).tag = name
  IN SelectSeq(DocOrder(NodeAt(root, path), path), under)

\* tag.next_elements: every node after the one at path, in document order.
NextElements(root, path) ==
  LET all == DocOrder(root, <<>>)
      at == CHOOSE k \in 1..Len(all) : all[k] = path
  IN SubSeq(all, at + 1, Len(all))

\* The value of "no node" (None): no path holds 0.
NoNode == <<0>>

\* node.parents: the proper ancestors of the node at path.
Parents(path) == {SubSeq(path, 1, k) : k \in 0..(Len(path) - 1)}

\* boundary in node.parents: membership compares with ==, and two Tags are
\* equal when their names, attributes and contents are.
InParents(root, boundary, node) ==
  \E a \in Parents(node) : NodeAt(root, a) = NodeAt(root, boundary)

FindScriptAfter(root, tag, boundary) ==
  LET isScript(p) == NodeAt(root, p).tag = "script"
      scripts == SelectSeq(NextElements(root, tag), isScript)
  IN IF scripts = <<>> THEN NoNode
     ELSE IF InParents(root, boundary, scripts[1]) THEN scripts[1] ELSE NoNode

(***************************************************************************)
(* URLs.  A URL is a sequence of symbols: " " (white space), "https:"      *)
(* (a scheme with its colon), "//", a host name, a path starting with "/". *)
(***************************************************************************)
HostSyms == {"h"}

RECURSIVE StripLeft(_)
StripLeft(u) == IF u # <<>> /\ Head(u) = " " THEN StripLeft(Tail(u)) ELSE u

RECURSIVE StripRight(_)
StripRight(u) ==
  IF u # <<>> /\ u[Len(u)] = " " THEN StripRight(SubSeq(u, 1, Len(u) - 1)) ELSE u

Strip(u) == StripRight(StripLeft(u))

\* urlparse(u): the scheme and the netloc.
UrlParse(u) ==
  LET scheme == IF u # <<>> /\ Head(u) = "https:" THEN "https" ELSE ""
      rest == IF scheme # "" THEN Tail(u) ELSE u
      netloc == IF Len(rest) >= 2 /\ rest[1] = "//" /\ rest[2] \in HostSyms
                THEN rest[2] ELSE ""
  IN [scheme |-> scheme, netloc |-> netloc]

\* urljoin(base, ref) for a reference that is a path starting with "/".
UrlJoin(base, ref) ==
  LET b == UrlParse(base)
  IN IF b.scheme = "" \/ b.netloc = "" THEN ref
     ELSE <<"https:", "//", b.netloc>> \o ref

NormalizeUrl(url) ==
  LET u == Strip(url)
  IN IF u = <<>> THEN <<>>
     ELSE LET u2 == IF UrlParse(u).scheme = "" THEN <<"https:", "//">> \o u ELSE u
          IN IF UrlParse(u2).netloc = "" THEN <<>> ELSE u2

(***************************************************************************)
(* The title resolver.  resp is what the network answers to the request:   *)
(* kind "neterr" (requests.get raises), "status" (raise_for_status         *)
(* raises), "badbody" (the parser raises) or "ok", with the headings of    *)
(* the fetched page in document order.                                     *)
(***************************************************************************)
Raised == "!exception"

\* soup.find(tag_name) for each configured tag in priority order.
FirstHeading(headings) ==
  LET found(k) == \E j \in 1..Len(headings) : headings[j].tag = IFRAME_TITLE_TAGS[k]
      ks == {k \in 1..Len(IFRAME_TITLE_TAGS) : found(k)}
  IN IF ks = {} THEN ""
     ELSE LET k == CHOOSE x \in ks : \A y \in ks : x <= y
              js == {j \in 1..Len(headings) : headings[j].tag = IFRAME_TITLE_TAGS[k]}
              j == CHOOSE x \in js : \A y \in js : x <= y
          IN headings[j].text

\* The body of the try statement: the title, or Raised when a statement raises.
FetchTry(iframe_url, base, resp) ==
  LET url == IF base # <<>> /\ UrlParse(iframe_url).netloc = ""
             THEN UrlJoin(base, iframe_url) ELSE iframe_url
      normalized == NormalizeUrl(url)
  IN IF normalized = <<>> THEN ""
     ELSE IF resp.kind \in {"neterr", "status", "badbody"} THEN Raised
     ELSE FirstHeading(resp.headings)

FetchNoExcept(iframe_url, base, resp) == FetchTry(iframe_url, base, resp)

\* fetch_iframe_title: except Exception returns "".
FetchIframeTitle(iframe_url, base, resp) ==
  LET r == FetchTry(iframe_url, base, resp) IN IF r = Raised THEN "" ELSE r

(***************************************************************************)
(* Fragments and blocks.  A content part or block is a str in the program, *)
(* a widget part or block the tuple (html, title).                         *)
(***************************************************************************)
Content(html) == [kind |-> "content", html |-> html, title |-> ""]

Widget(html, title) == [kind |-> "widget", html |-> html, title |-> title]

TokSeqSame(idx) == "@@IFRAME_SEQ_0@@"

TokSeq(idx) == "@@IFRAME_SEQ_" \o ToString(idx) \o "@@"

TokIframeOnly(idx) == "@@IFRAME_ONLY_" \o ToString(idx) \o "@@"

TokScriptOnly(idx) == "@@SCRIPT_ONLY_" \o ToString(idx) \o "@@"

(***************************************************************************)
(* clean_orphaned_tags.  The tags and the text of the modelled documents:  *)
(* div stands for every tag outside ALLOWED_TAGS that is neither iframe    *)
(* nor script, p for the allowed tags.                                     *)
(***************************************************************************)
ModelTags == {"div", "p", "iframe", "script"}

Srcs == {"", "/w"}

WhiteSyms == {" "}

StartSyms == {StartTag(t, a) : t \in ModelTags, a \in Srcs}

EndSyms == {EndTag(t) : t \in ModelTags}

TagOfStart(sym) == CHOOSE t \in ModelTags : \E a \in Srcs : sym = StartTag(t, a)

TagOfEnd(sym) == CHOOSE t \in ModelTags : sym = EndTag(t)

\* str.strip() is empty
IsBlank(s) == \A k \in 1..Len(s) : s[k] \in WhiteSyms

\* get_text(strip=True) of the parsed fragment is empty: every string of it
\* is white space.
NoText(s) == \A k \in 1..Len(s) : s[k] \in StartSyms \cup EndSyms \cup WhiteSyms

\* str(BeautifulSoup(fragment, "html.parser")).  open is the stack of the open
\* elements, the innermost first.  An end tag closes the innermost open
\* element of its name and everything opened inside it, and is dropped when
\* no element of its name is open; the end of the input closes what is open.
RECURSIVE Reparse(_, _)
Reparse(frag, open) ==
  IF frag = <<>> THEN [k \in 1..Len(open) |-> EndTag(open[k])]
  ELSE LET sym == Head(frag)
       IN IF sym \in StartSyms
            THEN <<sym>> \o Reparse(Tail(frag), <<TagOfStart(sym)>> \o open)
          ELSE IF sym \in EndSyms
            THEN LET t == TagOfEnd(sym)
                     at == {k \in 1..Len(open) : open[k] = t}
                 IN IF at = {} THEN Reparse(Tail(frag), open)
                    ELSE LET k == CHOOSE x \in at : \A y \in at : x <= y
                         IN [j \in 1..k |-> EndTag(open[j])]
                            \o Reparse(Tail(frag), SubSeq(open, k + 1, Len(open)))
          ELSE <<sym>> \o Reparse(Tail(frag), open)

\* The parser raises on no fragment of the modelled markup, so the except
\* branch (the fragment returned as it is) is never taken.
CleanOrphanedTags(html_fragment) ==
  IF html_fragment = <<>> \/ IsBlank(html_fragment) THEN <<>>
  ELSE IF NoText(html_fragment) THEN <<>>
  ELSE Reparse(html_fragment, <<>>)

(***************************************************************************)
(* _process_allowed_element                                                *)
(***************************************************************************)
\* The pairs collected at lines 283-287, in document order.
Pairs(root, el) ==
  LET iframes == FindAll(root, el, "iframe")
      all == [k \in 1..Len(iframes) |->
                <<iframes[k], FindScriptAfter(root, iframes[k], el)>>]
      paired(p) == p[2] # NoNode
  IN SelectSeq(all, paired)

PairHtml(root, iframe, script) == Str(NodeAt(root, iframe)) \o Str(NodeAt(root, script))

\* The title of an iframe: fetched only when it has a src.  net gives the
\* network's answer to the request made for each iframe.
TitleOf(root, iframe, base, net) ==
  LET iframe_src == NodeAt(root, iframe).attr
  IN IF iframe_src = "" THEN "" ELSE FetchIframeTitle(<<iframe_src>>, base, net[iframe])

MapPut(map, key, val) ==
  [k \in DOMAIN map \cup {key} |-> IF k = key THEN val ELSE map[k]]

\* The fallback's str.replace(iframe_token + ".*?" + script_token, combined_token):
\* the argument is a literal string, not a pattern.
JoinTokens(html, idx) ==
  ReplaceAll(html, <<TokIframeOnly(idx), ".*?", TokScriptOnly(idx)>>, <<TokSeq(idx)>>)

\* One pass of the loop at lines 296-326 for the pair numbered idx:
\* st = [html |-> html_str, map |-> token_map].
SubstPair(root, iframe, script, idx, title, st) ==
  LET pair_html == PairHtml(root, iframe, script)
      exact == SubnFirst(st.html, pair_html, TokSeq(idx))
      r1 == SubnFirst(st.html, Str(NodeAt(root, iframe)), TokIframeOnly(idx))
      r2 == SubnFirst(r1[1], Str(NodeAt(root, script)), TokScriptOnly(idx))
      entry == [html |-> pair_html, title |-> title]
  IN IF exact[2] = 1
       THEN [html |-> exact[1], map |-> MapPut(st.map, TokSeq(idx), entry)]
     ELSE IF r1[2] = 1 /\ r2[2] = 1
       THEN [html |-> JoinTokens(r2[1], idx), map |-> MapPut(st.map, TokSeq(idx), entry)]
     ELSE [html |-> r2[1], map |-> st.map]

RECURSIVE SubstLoop(_, _, _, _, _, _)
SubstLoop(root, pairs, idx, base, net, st) ==
  IF idx >= Len(pairs) THEN st
  ELSE LET pr == pairs[idx + 1]
       IN SubstLoop(root, pairs, idx + 1, base, net,
                    SubstPair(root, pr[1], pr[2], idx,
                              TitleOf(root, pr[1], base, net), st))

\* @@IFRAME_SEQ_\d+@@: the markup holds no such text of its own, so a token
\* found carries the number of one of the n pairs.
IsSeqToken(sym, n) == \E idx \in 0..(n - 1) : sym = TokSeq(idx)

\* re.split(r'(@@IFRAME_SEQ_\d+@@)', html_str) without its empty parts.
RECURSIVE SplitTokens(_, _, _)
SplitTokens(html, n, cur) ==
  IF html = <<>> THEN (IF cur = <<>> THEN <<>> ELSE <<cur>>)
  ELSE IF IsSeqToken(Head(html), n)
    THEN (IF cur = <<>> THEN <<>> ELSE <<cur>>) \o <<(<<Head(html)>>)>>
         \o SplitTokens(Tail(html), n, <<>>)
  ELSE SplitTokens(Tail(html), n, Append(cur, Head(html)))

\* Lines 331-346: what one part of the split adds to the result.
PartResult(part, n, map) ==
  IF IsSeqToken(part[1], n)
    THEN (IF part[1] \in DOMAIN map
          THEN <<Widget(map[part[1]].html, map[part[1]].title)>> ELSE <<>>)
  ELSE LET cleaned_part == CleanOrphanedTags(part)
       IN IF IsBlank(cleaned_part) THEN <<>> ELSE <<Content(cleaned_part)>>

ProcessAllowedElement(root, el, base, net) ==
  LET pairs == Pairs(root, el)
      st == SubstLoop(root, pairs, 0, base, net,
                      [html |-> Str(NodeAt(root, el)), map |-> <<>>])
      split == SplitTokens(st.html, Len(pairs), <<>>)
  IN IF pairs = <<>> THEN <<Content(Str(NodeAt(root, el)))>>
     ELSE Flatten([k \in 1..Len(split) |-> PartResult(split[k], Len(pairs), st.map)])

(***************************************************************************)
(* extract_blocks_recursive.  st = [blocks, group] holds blocks and        *)
(* current_group.                                                          *)
(***************************************************************************)
\* The direct children that are Tags (line 366).
TagChildren(root, element) ==
  LET kids == NodeAt(root, element).kids
      all == [k \in 1..Len(kids) |-> Append(element, k)]
      isTag(p) == IsTag(NodeAt(root, p))
  IN SelectSeq(all, isTag)

FlushNothing(st) == st

\* flush_current_group
FlushCurrentGroup(st) ==
  IF st.group # <<>>
  THEN [blocks |-> Append(st.blocks, Content(Flatten(st.group))), group |-> <<>>]
  ELSE st

GroupPrepend(st, html) == [st EXCEPT !.group = <<html>> \o @]

GroupAppendAsBlock(st, html) == [st EXCEPT !.blocks = Append(@, Content(html))]

\* current_group.append(part)
GroupAppend(st, html) == [st EXCEPT !.group = Append(@, html)]

\* Lines 404-411 and 415-422: a widget flushes the group and is appended to
\* blocks, content joins the group.
RECURSIVE Collect(_, _)
Collect(st, items) ==
  IF items = <<>> THEN st
  ELSE LET it == Head(items)
       IN Collect(IF it.kind = "widget"
                  THEN [FlushCurrentGroup(st) EXCEPT !.blocks = Append(@, it)]
                  ELSE GroupAppend(st, it.html),
                  Tail(items))

\* Line 374-376: tag_children[i] is an iframe and tag_children[i + 1] a script
\* (i counts from 0).
IsSiblingPair(root, tc, k) ==
  /\ NodeAt(root, tc[k + 1]).tag = "iframe"
  /\ k + 1 < Len(tc)
  /\ NodeAt(root, tc[k + 2]).tag = "script"

\* Lines 379-394
EmitSiblingPair(root, tc, k, base, net, st) ==
  LET iframe == tc[k + 1]
      script == tc[k + 2]
      title == TitleOf(root, iframe, base, net)
  IN [FlushCurrentGroup(st) EXCEPT
        !.blocks = Append(@, Widget(PairHtml(root, iframe, script), title))]

RECURSIVE ExtractBlocksRecursive(_, _, _, _)
RECURSIVE ExtractLoop(_, _, _, _, _, _)

\* The while loop at lines 370-424, from position k on, and the final flush.
ExtractLoop(root, tc, k, base, net, st) ==
  IF k >= Len(tc) THEN FlushCurrentGroup(st).blocks
  ELSE IF IsSiblingPair(root, tc, k)
    THEN ExtractLoop(root, tc, k + 2, base, net, EmitSiblingPair(root, tc, k, base, net, st))
  ELSE IF NodeAt(root, tc[k + 1]).tag \in ALLOWED_TAGS
    THEN ExtractLoop(root, tc, k + 1, base, net,
                     Collect(st, ProcessAllowedElement(root, tc[k + 1], base, net)))
  ELSE ExtractLoop(root, tc, k + 1, base, net,
                   Collect(st, ExtractBlocksRecursive(root, tc[k + 1], base, net)))

ExtractBlocksRecursive(root, element, base, net) ==
  ExtractLoop(root, TagChildren(root, element), 0, base, net,
              [blocks |-> <<>>, group |-> <<>>])

(***************************************************************************)
(* The inputs: the pages index() may be asked for.  An iframe and a script *)
(* are leaves: what a parser makes of their content differs between        *)
(* parsers, and no step of the program reads it except to serialize it.    *)
(* The selected element is the whole document: no script follows it.       *)
(* The markup holds no text that reads as a placeholder token.             *)
(***************************************************************************)
MaxNodes == 4

MaxKids == 4

MaxBlocks == 2

MaxTwinKids == 2

IframeNoSrc == Elem("iframe", "", <<>>)

IframeSrc == Elem("iframe", "/w", <<>>)

Script == Elem("script", "", <<>>)

\* No two text nodes are neighbours: the parser makes one string of them.
NoTwoTexts(kids) == \A k \in 1..(Len(kids) - 1) : IsTag(kids[k]) \/ IsTag(kids[k + 1])

\* The sequences of at most n of the given leaves.
RECURSIVE AllSeqs(_, _)
AllSeqs(S, n) ==
  IF n = 0 THEN {<<>>}
  ELSE LET shorter == AllSeqs(S, n - 1)
       IN shorter \cup {Append(q, x) : q \in {r \in shorter : Len(r) = n - 1}, x \in S}

FlatKids(S, n) == {kids \in AllSeqs(S, n) : NoTwoTexts(kids)}

\* The forests of exactly n nodes: iframe, script and text are leaves, div
\* and p hold any forest.
RECURSIVE Forests(_)
Forests(n) ==
  IF n = 0 THEN {<<>>}
  ELSE LET leaves == {IframeSrc, Script, TextNode("x")}
           trees(m) == (IF m = 1 THEN leaves ELSE {})
                       \cup {Elem(t, "", kids) : t \in {"div", "p"}, kids \in Forests(m - 1)}
       IN UNION {{<<first>> \o rest : first \in trees(m), rest \in Forests(n - m)}
                 : m \in 1..n}

\* The selected element (content): a container of nested markup, of one
\* allowed block, or of allowed blocks that may be equal to each other.
NestedPages ==
  {Elem("div", "", kids) :
     kids \in {f \in UNION {Forests(n) : n \in 0..MaxNodes} : NoTwoTexts(f)}}

BlockPages ==
  {Elem("div", "", <<Elem("p", "", kids)>>) :
     kids \in FlatKids({IframeNoSrc, IframeSrc, Script, TextNode("x"), TextNode(" "),
                        TextNode(".*?")}, MaxKids)}

TwinPages ==
  {Elem("div", "", ps) :
     ps \in AllSeqs({Elem("p", "", kids) : kids \in FlatKids({IframeNoSrc, Script}, MaxTwinKids)},
                    MaxBlocks)}

Pages == NestedPages \cup BlockPages \cup TwinPages

PageUrls == {<<>>, <<" ">>, <<"/p">>, <<"h", "/p">>, <<"https:", "//", "h", "/p">>}

Responses ==
  {[kind |-> k, headings |-> <<>>] : k \in {"neterr", "status", "badbody", "ok"}}
  \cup {[kind |-> "ok",
         headings |-> <<[tag |-> "h2", text |-> "B"], [tag |-> "h1", text |-> "A"]>>]}

\* The iframes with a src at or under the node at path: the requests a step
\* may make.
Fetchable(root, path) ==
  LET all == DocOrder(NodeAt(root, path), path)
  IN {all[k] : k \in {j \in 1..Len(all) :
                        NodeAt(root, all[j]).tag = "iframe" /\ NodeAt(root, all[j]).attr # ""}}

NoDocument == Elem("[document]", "", <<>>)

(***************************************************************************)
(* index()                                                                 *)
(***************************************************************************)
Init ==
  /\ pc = "idle"
  /\ tree = NoDocument
  /\ base_url = <<>>
  /\ tag_children = <<>>
  /\ i = 0
  /\ blocks = <<>>
  /\ current_group = <<>>
  /\ child = NoNode
  /\ parts = <<>>
  /\ extracted_blocks = <<>>
  /\ summary = [content_blocks |-> 0, iframe_blocks |-> 0]
  /\ error = ""

\* Lines 453-455: the URL does not normalize.
PostInvalidUrl ==
  /\ pc = "idle"
  /\ \E url_value \in PageUrls : NormalizeUrl(url_value) = <<>>
  /\ error' = "The URL looks invalid"
  /\ pc' = "done"
  /\ UNCHANGED <<tree, base_url, tag_children, i, blocks, current_group, child, parts,
                 extracted_blocks, summary>>

\* Lines 459-460 and 495-496: the request raises a RequestException.
PostRequestFailed ==
  /\ pc = "idle"
  /\ \E url_value \in PageUrls : NormalizeUrl(url_value) # <<>>
  /\ error' = "Request failed"
  /\ pc' = "done"
  /\ UNCHANGED <<tree, base_url, tag_children, i, blocks, current_group, child, parts,
                 extracted_blocks, summary>>

\* Lines 466-468: the selector matches nothing.
PostNoContent ==
  /\ pc = "idle"
  /\ \E url_value \in PageUrls : NormalizeUrl(url_value) # <<>>
  /\ error' = "Could not find the selector"
  /\ pc' = "done"
  /\ UNCHANGED <<tree, base_url, tag_children, i, blocks, current_group, child, parts,
                 extracted_blocks, summary>>

\* Lines 465-470 and 356-369: the page is parsed, the element selected and
\* extract_blocks_recursive(content, normalized) entered.
PostExtract ==
  /\ pc = "idle"
  /\ \E url_value \in PageUrls, content \in Pages :
       /\ NormalizeUrl(url_value) # <<>>
       /\ tree' = content
       /\ base_url' = NormalizeUrl(url_value)
       /\ tag_children' = TagChildren(content, <<>>)
  /\ i' = 0
  /\ blocks' = <<>>
  /\ current_group' = <<>>
  /\ pc' = "loop"
  /\ UNCHANGED <<child, parts, extracted_blocks, summary, error>>

\* Lines 373-398: an iframe and the script after it, children of the element.
LoopSiblingPair ==
  /\ pc = "loop"
  /\ i < Len(tag_children)
  /\ IsSiblingPair(tree, tag_children, i)
  /\ \E net \in [Fetchable(tree, tag_children[i + 1]) -> Responses] :
       LET st == EmitSiblingPair(tree, tag_children, i, base_url, net,
                                 [blocks |-> blocks, group |-> current_group])
       IN /\ blocks' = st.blocks
          /\ current_group' = st.group
  /\ child' = tag_children[i + 1]
  /\ i' = i + 2
  /\ UNCHANGED <<pc, tree, base_url, tag_children, parts, extracted_blocks, summary, error>>

\* Lines 401-411: an allowed block.
LoopAllowed ==
  /\ pc = "loop"
  /\ i < Len(tag_children)
  /\ ~IsSiblingPair(tree, tag_children, i)
  /\ NodeAt(tree, tag_children[i + 1]).tag \in ALLOWED_TAGS
  /\ \E net \in [Fetchable(tree, tag_children[i + 1]) -> Responses] :
       LET ps == ProcessAllowedElement(tree, tag_children[i + 1], base_url, net)
           st == Collect([blocks |-> blocks, group |-> current_group], ps)
       IN /\ parts' = ps
          /\ blocks' = st.blocks
          /\ current_group' = st.group
  /\ child' = tag_children[i + 1]
  /\ i' = i + 1
  /\ UNCHANGED <<pc, tree, base_url, tag_children, extracted_blocks, summary, error>>

\* Lines 412-422: any other element is traversed and its blocks spliced in.
LoopContainer ==
  /\ pc = "loop"
  /\ i < Len(tag_children)
  /\ ~IsSiblingPair(tree, tag_children, i)
  /\ NodeAt(tree, tag_children[i + 1]).tag \notin ALLOWED_TAGS
  /\ \E net \in [Fetchable(tree, tag_children[i + 1]) -> Responses] :
       LET child_blocks == ExtractBlocksRecursive(tree, tag_children[i + 1], base_url, net)
           st == Collect([blocks |-> blocks, group |-> current_group], child_blocks)
       IN /\ blocks' = st.blocks
          /\ current_group' = st.group
  /\ child' = tag_children[i + 1]
  /\ i' = i + 1
  /\ UNCHANGED <<pc, tree, base_url, tag_children, parts, extracted_blocks, summary, error>>

\* Lines 426-429 and 470: the final flush; the blocks are returned.
LoopExit ==
  /\ pc = "loop"
  /\ i >= Len(tag_children)
  /\ LET st == FlushCurrentGroup([blocks |-> blocks, group |-> current_group])
     IN /\ blocks' = st.blocks
        /\ current_group' = st.group
        /\ extracted_blocks' = st.blocks
  /\ pc' = "extracted"
  /\ UNCHANGED <<tree, base_url, tag_children, i, child, parts, summary, error>>

TemplateBlock(block) ==
  [html |-> block.html, is_iframe |-> block.kind = "widget", title |-> block.title]

CountEveryBlock(bs, kind) == Len(bs)

\* Lines 474-491: summary[...] += 1 for each block of the kind.
RECURSIVE CountBlocks(_, _)
CountBlocks(bs, kind) ==
  IF bs = <<>> THEN 0
  ELSE (IF Head(bs).kind = kind THEN 1 ELSE 0) + CountBlocks(Tail(bs), kind)

\* Lines 472-493
Summarize ==
  /\ pc = "extracted"
  /\ extracted_blocks' = [k \in 1..Len(extracted_blocks) |-> TemplateBlock(extracted_blocks[k])]
  /\ summary' = [content_blocks |-> summary.content_blocks + CountBlocks(extracted_blocks, "content"),
                 iframe_blocks |-> summary.iframe_blocks + CountBlocks(extracted_blocks, "widget")]
  /\ pc' = "done"
  /\ UNCHANGED <<tree, base_url, tag_children, i, blocks, current_group, child, parts, error>>

\* Lines 499-508: the page is rendered and the request is over.
Render ==
  /\ pc = "done"
  /\ pc' = "idle"
  /\ tree' = NoDocument
  /\ base_url' = <<>>
  /\ tag_children' = <<>>
  /\ i' = 0
  /\ blocks' = <<>>
  /\ current_group' = <<>>
  /\ child' = NoNode
  /\ parts' = <<>>
  /\ extracted_blocks' = <<>>
  /\ summary' = [content_blocks |-> 0, iframe_blocks |-> 0]
  /\ error' = ""

Next ==
  \/ PostInvalidUrl
  \/ PostRequestFailed
  \/ PostNoContent
  \/ PostExtract
  \/ LoopSiblingPair
  \/ LoopAllowed
  \/ LoopContainer
  \/ LoopExit
  \/ Summarize
  \/ Render

Spec == Init /\ [][Next]_vars

(***************************************************************************)
(* What the properties below speak of.                                     *)
(***************************************************************************)
NodesOf(root) == {DocOrder(root, <<>>)[k] : k \in 1..Len(DocOrder(root, <<>>))}

HtmlOf(bs) == Flatten([k \in 1..Len(bs) |-> bs[k].html])

Occurs(needle, hay) == FirstIndex(hay, needle) # 0

IsSuffix(s, t) == Len(s) <= Len(t) /\ SubSeq(t, Len(t) - Len(s) + 1, Len(t)) = s

RECURSIVE IsSubsequence(_, _)
IsSubsequence(s, t) ==
  IF s = <<>> THEN TRUE
  ELSE IF t = <<>> THEN FALSE
  ELSE IF Head(s) = Head(t) THEN IsSubsequence(Tail(s), Tail(t))
  ELSE IsSubsequence(s, Tail(t))

Widgets(bs) == LET w(b) == b.kind = "widget" IN SelectSeq(bs, w)

\* Every request fails.
NoNet == [p \in Fetchable(tree, <<>>) |-> [kind |-> "neterr", headings |-> <<>>]]

\* The traversal is in progress or over.
Loaded == pc \in {"loop", "extracted", "done"}

\* parts is what _process_allowed_element returned for child.
Processed == Loaded /\ child # NoNode /\ NodeAt(tree, child).tag \in ALLOWED_TAGS

\* html_str when the pass of the pair numbered idx begins.
HtmlBefore(idx) ==
  SubstLoop(tree, SubSeq(Pairs(tree, child), 1, idx), 0, base_url, NoNet,
            [html |-> Str(NodeAt(tree, child)), map |-> <<>>]).html

\* How the pass of the pair numbered idx ends: the exact match succeeds
\* ("exact"), it fails and both substitutions of the fallback succeed
\* ("both"), or the pair is given up ("gaveup").
Outcome(idx) ==
  LET pr == Pairs(tree, child)[idx + 1]
      before == HtmlBefore(idx)
      r1 == SubnFirst(before, Str(NodeAt(tree, pr[1])), TokIframeOnly(idx))
      r2 == SubnFirst(r1[1], Str(NodeAt(tree, pr[2])), TokScriptOnly(idx))
  IN IF Occurs(PairHtml(tree, pr[1], pr[2]), before) THEN "exact"
     ELSE IF r1[2] = 1 /\ r2[2] = 1 THEN "both"
     ELSE "gaveup"

PairIndexes == 0..(Len(Pairs(tree, child)) - 1)

Placeholders ==
  {TokSeq(idx) : idx \in PairIndexes} \cup {TokIframeOnly(idx) : idx \in PairIndexes}
  \cup {TokScriptOnly(idx) : idx \in PairIndexes}

(***************************************************************************)
(* C1.  A widget block is appended only after the open content group is    *)
(* flushed: a loop step that appends a widget while the group is not empty *)
(* first appends the group, joined, as a content block; the step of a      *)
(* sibling pair appends exactly the flushed group and one widget whose     *)
(* html is str(iframe) + str(script); and the html of every widget block   *)
(* is the markup of one iframe followed by the markup of one script.       *)
(***************************************************************************)
C1_SinglePair ==
  \A k \in 1..Len(blocks) :
    blocks[k].kind = "widget" =>
      \E ip \in NodesOf(tree), sp \in NodesOf(tree) :
        /\ NodeAt(tree, ip).tag = "iframe"
        /\ NodeAt(tree, sp).tag = "script"
        /\ blocks[k].html = Str(NodeAt(tree, ip)) \o Str(NodeAt(tree, sp))

C1_Step ==
  LET n == Len(blocks)
      flushed == IF current_group = <<>> THEN blocks
                 ELSE Append(blocks, Content(Flatten(current_group)))
  IN /\ IsPrefix(blocks, blocks')
     /\ (current_group # <<>> /\ \E k \in (n + 1)..Len(blocks') : blocks'[k].kind = "widget")
          => /\ blocks'[n + 1].kind = "content"
             /\ IsPrefix(Flatten(current_group), blocks'[n + 1].html)
     /\ IsSiblingPair(tree, tag_children, i)
          => /\ Len(blocks') = Len(flushed) + 1
             /\ SubSeq(blocks', 1, Len(flushed)) = flushed
             /\ blocks'[Len(blocks')].kind = "widget"
             /\ blocks'[Len(blocks')].html =
                  Str(NodeAt(tree, tag_children[i + 1])) \o Str(NodeAt(tree, tag_children[i + 2]))
             /\ current_group' = <<>>

C1_WidgetAfterFlush ==
  /\ []C1_SinglePair
  /\ [][(pc = "loop" /\ pc' = "loop") => C1_Step]_vars

\* Two pairs with nothing between them have given two widget blocks.
C1_Witness ==
  /\ pc = "loop"
  /\ \E k \in 1..(Len(blocks) - 1) :
       blocks[k].kind = "widget" /\ blocks[k + 1].kind = "widget"

(***************************************************************************)
(* C2 as stated.  Once the traversal is over, the html of the blocks,      *)
(* joined in order, is the serialized markup of the subtree less tags      *)
(* only, white space apart: it is a subsequence of that markup and holds   *)
(* all of its text.                                                        *)
(***************************************************************************)
NonWhite(s) == LET keep(x) == x \notin WhiteSyms IN SelectSeq(s, keep)

TextOnly(s) == LET keep(x) == x \notin StartSyms \cup EndSyms IN SelectSeq(s, keep)

RECURSIVE KeptMarkup(_, _)
RECURSIVE KeptFrom(_, _, _)
KeptFrom(root, tc, k) ==
  IF k >= Len(tc) THEN <<>>
  ELSE IF IsSiblingPair(root, tc, k)
    THEN Str(NodeAt(root, tc[k + 1])) \o Str(NodeAt(root, tc[k + 2])) \o KeptFrom(root, tc, k + 2)
  ELSE IF NodeAt(root, tc[k + 1]).tag \in ALLOWED_TAGS
    THEN Str(NodeAt(root, tc[k + 1])) \o KeptFrom(root, tc, k + 1)
  ELSE KeptMarkup(root, tc[k + 1]) \o KeptFrom(root, tc, k + 1)

KeptMarkup(root, element) == KeptFrom(root, TagChildren(root, element), 0)

NoNestedPair(root) ==
  \A el \in NodesOf(root) : NodeAt(root, el).tag \in ALLOWED_TAGS => Pairs(root, el) = <<>>

C3_ContentMerged ==
  /\ \A k \in 1..(Len(blocks) - 1) :
       ~(blocks[k].kind = "content" /\ blocks[k + 1].kind = "content")
  /\ \A k \in 1..Len(blocks) : blocks[k].kind = "content" => blocks[k].html # <<>>

\* The content block of a container that was traversed and the allowed block
\* after the container have become one content block.
C3_Witness ==
  /\ pc = "extracted"
  /\ tree.kids = <<Elem("div", "", <<Elem("p", "", <<TextNode("x")>>)>>), Elem("p", "", <<>>)>>
  /\ blocks = <<Content(<<"<p>", "x", "</p>", "<p>", "</p>">>)>>

(***************************************************************************)
(* C4 as stated.  Once the traversal is over, the markup of every iframe   *)
(* that forms no pair lies in a content block: an iframe inside an allowed *)
(* block for which _find_script_after finds no script, and an iframe that  *)
(* is a child of a traversed element and is not followed by a script.      *)
(***************************************************************************)
\* The node is a child of the selected element or of an element the
\* traversal descends into.
Traversed(path) ==
  /\ path # <<>>
  /\ \A a \in Parents(path) : NodeAt(tree, a).tag \notin ALLOWED_TAGS

SiblingUnpaired(path) ==
  /\ Traversed(path)
  /\ NodeAt(tree, path).tag = "iframe"
  /\ LET tc == TagChildren(tree, SubSeq(path, 1, Len(path) - 1))
         k == CHOOSE j \in 1..Len(tc) : tc[j] = path
     IN ~(k < Len(tc) /\ NodeAt(tree, tc[k + 1]).tag = "script")

NestedUnpaired(path) ==
  /\ NodeAt(tree, path).tag = "iframe"
  /\ \E el \in Parents(path) :
       /\ Traversed(el)
       /\ NodeAt(tree, el).tag \in ALLOWED_TAGS
       /\ FindScriptAfter(tree, path, el) = NoNode

C4_Original ==
  pc = "extracted" =>
    \A path \in NodesOf(tree) :
      (SiblingUnpaired(path) \/ NestedUnpaired(path)) =>
        \E k \in 1..Len(blocks) :
          /\ blocks[k].kind = "content"
          /\ Occurs(Str(NodeAt(tree, path)), blocks[k].html)

(***************************************************************************)
(* C5.  fetch_iframe_title raises nothing and returns "" for a URL that    *)
(* does not normalize and for every answer that is a failure or holds no   *)
(* heading; no title of a block is an exception; and the kinds and the     *)
(* html of the blocks returned are those returned when every request       *)
(* fails.                                                                  *)
(***************************************************************************)
StripTitles(bs) == [k \in 1..Len(bs) |-> [kind |-> bs[k].kind, html |-> bs[k].html]]

NoTitle(resp) == resp.kind # "ok" \/ resp.headings = <<>>

C5_FetchContained ==
  /\ \A u \in PageUrls, resp \in Responses :
       /\ FetchIframeTitle(u, <<>>, resp) # Raised
       /\ (NoTitle(resp) \/ NormalizeUrl(u) = <<>>) => FetchIframeTitle(u, <<>>, resp) = ""
  /\ \A a \in Srcs \ {""}, resp \in Responses :
       /\ FetchIframeTitle(<<a>>, base_url, resp) # Raised
       /\ NoTitle(resp) => FetchIframeTitle(<<a>>, base_url, resp) = ""

C5_TitleFailuresContained ==
  /\ C5_FetchContained
  /\ \A k \in 1..Len(blocks) : blocks[k].title # Raised
  /\ pc = "extracted" =>
       StripTitles(blocks) = StripTitles(ExtractBlocksRecursive(tree, <<>>, base_url, NoNet))

\* Of two widgets whose iframes have a src, one got its title and the other
\* none.
C5_Witness ==
  /\ pc = "extracted"
  /\ \E j \in 1..Len(blocks), k \in 1..Len(blocks) :
       /\ blocks[j].kind = "widget" /\ blocks[k].kind = "widget"
       /\ blocks[j].html[1] = StartTag("iframe", "/w")
       /\ blocks[k].html[1] = StartTag("iframe", "/w")
       /\ blocks[j].title = "A"
       /\ blocks[k].title = ""

(***************************************************************************)
(* C6.  When the request is over, summary.content_blocks is the number of  *)
(* content blocks, summary.iframe_blocks the number of widget blocks, and  *)
(* their sum the number of blocks.                                         *)
(***************************************************************************)
C6_SummaryCounts ==
  pc = "done" =>
    /\ summary.content_blocks + summary.iframe_blocks = Len(extracted_blocks)
    /\ summary.content_blocks =
         Cardinality({k \in 1..Len(extracted_blocks) : ~extracted_blocks[k].is_iframe})
    /\ summary.iframe_blocks =
         Cardinality({k \in 1..Len(extracted_blocks) : extracted_blocks[k].is_iframe})
    /\ Len(extracted_blocks) = Len(blocks)
    /\ \A k \in 1..Len(blocks) : extracted_blocks[k].is_iframe <=> blocks[k].kind = "widget"

C6_Witness ==
  /\ pc = "done"
  /\ summary.content_blocks = 2
  /\ summary.iframe_blocks = 1

(***************************************************************************)
(* C7 as stated.  For every pair of an allowed block whose exact match     *)
(* fails and whose two fallback substitutions succeed, a widget part runs  *)
(* from the markup of the iframe to the markup of the script.              *)
(***************************************************************************)
C7_Original ==
  Processed =>
    \A idx \in PairIndexes :
      Outcome(idx) = "both" =>
        \E k \in 1..Len(parts) :
          /\ parts[k].kind = "widget"
          /\ IsPrefix(Str(NodeAt(tree, Pairs(tree, child)[idx + 1][1])), parts[k].html)
          /\ IsSuffix(Str(NodeAt(tree, Pairs(tree, child)[idx + 1][2])), parts[k].html)

(***************************************************************************)
(* C8 as stated.  For every pair of an allowed block that is given up, the *)
(* markup of its iframe and the markup of its script lie in content parts, *)
(* and no part holds a placeholder token.                                  *)
(***************************************************************************)
C8_Original ==
  Processed =>
    \A idx \in PairIndexes :
      Outcome(idx) = "gaveup" =>
        /\ \E k \in 1..Len(parts) :
             /\ parts[k].kind = "content"
             /\ Occurs(Str(NodeAt(tree, Pairs(tree, child)[idx + 1][1])), parts[k].html)
        /\ \E k \in 1..Len(parts) :
             /\ parts[k].kind = "content"
             /\ Occurs(Str(NodeAt(tree, Pairs(tree, child)[idx + 1][2])), parts[k].html)
        /\ \A k \in 1..Len(parts) : \A j \in 1..Len(parts[k].html) :
             parts[k].html[j] \notin Placeholders

(***************************************************************************)
(* C9 as stated.  The pairs detected in an allowed block are, for each     *)
(* iframe under it in document order, the iframe and the first script      *)
(* after it in document order, when that script is under the block.        *)
(***************************************************************************)
ExpectedPairs(root, el) ==
  LET iframes == FindAll(root, el, "iframe")
      isScript(p) == NodeAt(root, p).tag = "script"
      after(k) == SelectSeq(NextElements(root, iframes[k]), isScript)
      inside(k) == after(k) # <<>> /\ IsPrefix(el, after(k)[1]) /\ after(k)[1] # el
      ks == SelectSeq([k \in 1..Len(iframes) |-> k], inside)
  IN [j \in 1..Len(ks) |-> <<iframes[ks[j]], after(ks[j])[1]>>]

C9_Original == Processed => Pairs(tree, child) = ExpectedPairs(tree, child)

(***************************************************************************)
(* C10.  The widget parts of an allowed block are, in their order, the     *)
(* markup of some of its detected pairs in the order of detection, each    *)
(* pair taken at most once.                                                *)
(***************************************************************************)
C10_FragmentsOfPairs ==
  Processed =>
    LET pairs == Pairs(tree, child)
        special == Widgets(parts)
    IN IsSubsequence([k \in 1..Len(special) |-> special[k].html],
                     [k \in 1..Len(pairs) |-> PairHtml(tree, pairs[k][1], pairs[k][2])])

\* Two pairs of different markup were split out, between content parts.
C10_Witness ==
  /\ Processed
  /\ Len(Pairs(tree, child)) = 2
  /\ Len(Widgets(parts)) = 2
  /\ Widgets(parts)[1].html # Widgets(parts)[2].html

====
